---- MODULE Spec2Model ----
(***************************************************************************)
(* AsyncCroutonClient (pkgs/crouton_client/crouton_client/async.py): URL   *)
(* construction and the request/response exchange of get, post, put and    *)
(* delete.                                                                 *)
(*                                                                         *)
(* Python strings that take part in URL building are sequences of          *)
(* one-character strings; None is a value that is no such sequence.        *)
(* A dict is a function from its keys to its values.                       *)
(***************************************************************************)
EXTENDS Naturals, Sequences, FiniteSets, TLC

VARIABLES API_ROOT, ACCESS_STRING, store, nextUuid, calls, sessions, requests

vars == <<API_ROOT, ACCESS_STRING, store, nextUuid, calls, sessions, requests>>

\* ------------------------------------------------------------------ bounds

\* Number of calls made on the client in one behaviour.
MaxCalls == 2

\* Longest resource string drawn in the URL specification.
MaxResLen == 3

\* ------------------------------------------------- Python values and str

None == <<"None">>

\* Python truthiness of an Optional[str]: None and "" are falsy.
Truthy(x) == x # None /\ x # << >>

RECURSIVE lstrip(_, _)
lstrip(s, ch) == IF s # << >> /\ Head(s) = ch THEN lstrip(Tail(s), ch) ELSE s

RECURSIVE rstrip(_, _)
rstrip(s, ch) ==
    IF s # << >> /\ s[Len(s)] = ch THEN rstrip(SubSeq(s, 1, Len(s) - 1), ch) ELSE s

\* str.strip(ch) with a one-character argument.
strip(s, ch) == rstrip(lstrip(s, ch), ch)

\* ch in s
Contains(s, ch) == \E i \in 1..Len(s) : s[i] = ch

\* urllib.parse.quote_plus on one character.  Letters and digits (the only
\* other characters of the alphabets below) are unreserved and kept.
QuoteChar(ch) ==
    CASE ch = " " -> <<"+">>
      [] ch = "/" -> <<"%", "2", "F">>
      [] ch = "?" -> <<"%", "3", "F">>
      [] ch = "&" -> <<"%", "2", "6">>
      [] ch = "=" -> <<"%", "3", "D">>
      [] OTHER    -> <<ch>>

RECURSIVE quote_plus(_)
quote_plus(s) == IF s = << >> THEN << >> ELSE QuoteChar(Head(s)) \o quote_plus(Tail(s))

\* urlencode of a single-entry dict {k: v}.
urlencode(k, v) == quote_plus(k) \o <<"=">> \o quote_plus(v)

\* ------------------------------------------------------ URL construction

\* A query_params argument: None, or the single-entry dict {k: v}.
NoParams == [given |-> FALSE]
Params(k, v) == [given |-> TRUE, k |-> k, v |-> v]

\* Variant: only the leading slashes are stripped.
ResourcePathLstrip(resource) == lstrip(resource, "/")

\* resource.strip('/')
ResourcePath(resource) == strip(resource, "/")

\* Variant: only the leading "?" characters are stripped.
TokenValueLstrip == lstrip(ACCESS_STRING, "?")

\* self.ACCESS_STRING.strip('?')
TokenValue == strip(ACCESS_STRING, "?")

\* Variant: the token is always joined by "?".
SeparatorQuestion(url) == <<"?">>

\* The separator chosen before token=.
Separator(url) == IF Contains(url, "?") THEN <<"&">> ELSE <<"?">>

\* _build_url(resource, item_id, query_params)
build_url(resource, item_id, query_params) ==
    LET u0 == API_ROOT \o <<"/">> \o ResourcePath(resource)
        u1 == IF Truthy(item_id) THEN u0 \o <<"/">> \o item_id ELSE u0
        u2 == IF query_params.given
              THEN u1 \o <<"?">> \o urlencode(query_params.k, query_params.v)
              ELSE u1
    IN  IF Truthy(ACCESS_STRING)
        THEN u2 \o Separator(u2) \o <<"t", "o", "k", "e", "n", "=">> \o TokenValue
        ELSE u2

\* Variant: the filter is built as soon as the key is truthy.
get_query_params_key_only(filter_key, filter_value) ==
    IF Truthy(filter_key)
    THEN Params(filter_key,
                IF filter_value = None THEN <<"N", "o", "n", "e">> ELSE filter_value)
    ELSE NoParams

\* get's query_params: {filter_key: filter_value} if both are truthy.
get_query_params(filter_key, filter_value) ==
    IF Truthy(filter_key) /\ Truthy(filter_value)
    THEN Params(filter_key, filter_value)
    ELSE NoParams

\* -------------------------------------------------------- caller objects

Objs == {"o1", "o2", "o3"}
NoObj == "none"

\* The dicts the caller holds: o1 and o2 have no id, o3 has one.
Store0 ==
    [o \in Objs |->
        CASE o = "o1" -> [name |-> "x"]
          [] o = "o2" -> [name |-> "y"]
          [] OTHER    -> [id |-> "given", name |-> "z"]]

\* UUIDGenerator().create(): the n-th identifier generated.
UUIDGenerator_create(n) == "uuid-" \o ToString(n)

\* data_obj['id'] = v
SetItem(d, key, v) == [f \in DOMAIN d \cup {key} |-> IF f = key THEN v ELSE d[f]]

\* ------------------------------------------------------------ the backend

JsonText == "{\"a\": 1}"
PlainText == "not found"

\* What the backend may answer: (status, body text).
Responses ==
    { <<200, JsonText>>, <<200, PlainText>>, <<201, JsonText>>, <<404, PlainText>> }

\* Whether res.json() can decode the body text.
IsJson(text) == text = JsonText

\* json decoding of a body text that IsJson.
json_loads(text) == CASE text = JsonText -> [a |-> 1]

\* ------------------------------------------------------------------ state

\* calls[c]: the c-th invocation of an operation, with its arguments, the URL it
\* built, its position (pc) and what it has seen of the response.
\*   pc = "sent": the request is issued, the call awaits the response
\*   pc = "resp": the response (status line) is in, the body is not yet read
\*   pc = "done": the call has returned or raised
\* sessions[s]: the s-th aiohttp.ClientSession() created.
\* requests[r]: the r-th HTTP request put on the wire.
\* store[o]: the caller's dict o.  nextUuid: identifiers generated so far + 1.

Pending == [kind |-> "pending"]

NewCall(op, resource, item_id, filter_key, filter_value, data, url) ==
    [op |-> op, resource |-> resource, item_id |-> item_id,
     filter_key |-> filter_key, filter_value |-> filter_value, data |-> data,
     url |-> url, session |-> Len(sessions) + 1, pc |-> "sent",
     status |-> 0, text |-> "", res |-> "none", consumed |-> FALSE,
     outcome |-> Pending]

\* async with aiohttp.ClientSession() as session: async with session.<verb>(url, ...):
\* a session of the call's own is created and the one request is issued on it.
Open(method, url, body, call) ==
    /\ calls' = Append(calls, call)
    /\ sessions' = Append(sessions, [owner |-> Len(calls) + 1, closed |-> FALSE])
    /\ requests' = Append(requests,
            [call |-> Len(calls) + 1, session |-> Len(sessions) + 1,
             method |-> method, url |-> url, body |-> body])

\* Variant: _build_url stores the stripped token back into the client.
ClientTokenStripped ==
    /\ API_ROOT' = API_ROOT
    /\ ACCESS_STRING' = IF Truthy(ACCESS_STRING) THEN strip(ACCESS_STRING, "?")
                        ELSE ACCESS_STRING

\* No method assigns self.API_ROOT or self.ACCESS_STRING after __init__.
ClientUnchanged == UNCHANGED <<API_ROOT, ACCESS_STRING>>

NoBody == [none |-> TRUE]

get(resource, item_id, filter_key, filter_value) ==
    LET query_params == get_query_params(filter_key, filter_value)
        url == build_url(resource, item_id, query_params)
    IN  /\ Len(calls) < MaxCalls
        /\ Open("GET", url, NoBody,
                NewCall("GET", resource, item_id, filter_key, filter_value, NoObj, url))
        /\ ClientUnchanged
        /\ UNCHANGED <<store, nextUuid>>

\* Variant: the id is generated whether or not the dict has one.
InjectIdAlways(d) == SetItem(d, "id", UUIDGenerator_create(nextUuid))

\* if 'id' not in data_obj: data_obj['id'] = UUIDGenerator().create()
InjectId(d) == IF "id" \notin DOMAIN d THEN SetItem(d, "id", UUIDGenerator_create(nextUuid)) ELSE d

\* Variant: the id is set in a copy of the dict.
CallerSeesCopy(o, data_obj) == store' = store

\* data_obj is the caller's dict itself: the assignment is seen by the caller.
CallerSees(o, data_obj) == store' = [store EXCEPT ![o] = data_obj]

post(resource, o) ==
    LET data_obj == InjectId(store[o])
        url == build_url(resource, None, NoParams)
    IN  /\ Len(calls) < MaxCalls
        /\ CallerSees(o, data_obj)
        /\ nextUuid' = IF "id" \notin DOMAIN store[o] THEN nextUuid + 1 ELSE nextUuid
        /\ Open("POST", url, data_obj, NewCall("POST", resource, None, None, None, o, url))
        /\ ClientUnchanged

put(resource, o, item_id) ==
    LET url == build_url(resource, item_id, NoParams)
    IN  /\ Len(calls) < MaxCalls
        /\ Open("PUT", url, store[o], NewCall("PUT", resource, item_id, None, None, o, url))
        /\ ClientUnchanged
        /\ UNCHANGED <<store, nextUuid>>

delete(resource, item_id) ==
    LET url == build_url(resource, item_id, NoParams)
    IN  /\ Len(calls) < MaxCalls
        /\ Open("DELETE", url, NoBody,
                NewCall("DELETE", resource, item_id, None, None, NoObj, url))
        /\ ClientUnchanged
        /\ UNCHANGED <<store, nextUuid>>

\* The backend answers the request of call c: session.<verb>(url) yields res.
Respond(c, status, text) ==
    /\ calls[c].pc = "sent"
    /\ calls' = [calls EXCEPT ![c].pc = "resp", ![c].status = status,
                              ![c].text = text, ![c].res = "open"]
    /\ UNCHANGED <<API_ROOT, ACCESS_STRING, store, nextUuid, sessions, requests>>

\* Variant: the session is closed on the return path only.
ExitLeaks(c, consumed, outcome) ==
    /\ calls' = [calls EXCEPT ![c].pc = "done", ![c].outcome = outcome,
                              ![c].consumed = consumed,
                              ![c].res = IF @ = "open" THEN "closed" ELSE @]
    /\ sessions' = [sessions EXCEPT ![calls[c].session].closed = (outcome.kind = "return")]
    /\ UNCHANGED requests

\* Leaving both async with blocks, by return or by exception: the response is
\* released and the session closed, then the call completes with the outcome.
Exit(c, consumed, outcome) ==
    /\ calls' = [calls EXCEPT ![c].pc = "done", ![c].outcome = outcome,
                              ![c].consumed = consumed,
                              ![c].res = IF @ = "open" THEN "closed" ELSE @]
    /\ sessions' = [sessions EXCEPT ![calls[c].session].closed = TRUE]
    /\ UNCHANGED requests

\* Variant: every 2xx status counts as success.
Outcome2xx(method, status, text) ==
    IF status \in 200..299
    THEN IF IsJson(text)
         THEN [kind |-> "return", value |-> json_loads(text)]
         ELSE [kind |-> "JSONDecodeError"]
    ELSE [kind |-> "ValueError", method |-> method, status |-> status, text |-> text]

\* if res.status == 200: return await res.json()
\* else: raise ValueError(f"<VERB> request failed with status {res.status}: {await res.text()}")
Outcome(method, status, text) ==
    IF status = 200
    THEN IF IsJson(text)
         THEN [kind |-> "return", value |-> json_loads(text)]
         ELSE [kind |-> "JSONDecodeError"]
    ELSE [kind |-> "ValueError", method |-> method, status |-> status, text |-> text]

\* Variant: a non-200 status is retried once before it is raised.
ReadBodyRetry(c) ==
    /\ calls[c].pc = "resp"
    /\ IF calls[c].status # 200 /\ Cardinality({ r \in DOMAIN requests : requests[r].call = c }) = 1
       THEN /\ calls' = [calls EXCEPT ![c].pc = "sent", ![c].res = "closed"]
            /\ requests' = Append(requests, requests[c])
            /\ UNCHANGED sessions
       ELSE Exit(c, TRUE, Outcome(calls[c].op, calls[c].status, calls[c].text))
    /\ UNCHANGED <<API_ROOT, ACCESS_STRING, store, nextUuid>>

\* The body of the response is read and the call returns or raises.
ReadBody(c) ==
    /\ calls[c].pc = "resp"
    /\ Exit(c, TRUE, Outcome(calls[c].op, calls[c].status, calls[c].text))
    /\ UNCHANGED <<API_ROOT, ACCESS_STRING, store, nextUuid>>

TransportError == [kind |-> "ClientError"]

\* The transport fails (connection, DNS, TLS) before a response is in, or
\* while the body is read: the failure propagates out of the call.
TransportFail(c) ==
    /\ calls[c].pc \in {"sent", "resp"}
    /\ Exit(c, FALSE, TransportError)
    /\ UNCHANGED <<API_ROOT, ACCESS_STRING, store, nextUuid>>

\* ------------------------------------------------------------------ inputs

\* All strings over alphabet of length at most n.
RECURSIVE Strings(_, _)
Strings(alphabet, n) ==
    IF n = 0 THEN { << >> }
    ELSE LET shorter == Strings(alphabet, n - 1)
         IN  shorter \cup { Append(s, ch) : s \in shorter, ch \in alphabet }

\* __init__(API_ROOT, ACCESS_STRING): self.API_ROOT = API_ROOT.rstrip('/')
Construct(root, token) ==
    /\ API_ROOT = rstrip(root, "/")
    /\ ACCESS_STRING = token

Untouched ==
    /\ store = Store0
    /\ nextUuid = 1
    /\ calls = << >>
    /\ sessions = << >>
    /\ requests = << >>

\* The exchange specification: two clients, a few argument lists, every
\* interleaving of up to MaxCalls calls.
Users == <<"/", "u", "s", "e", "r", "s", "/">>
Item42 == <<"4", "2">>

Init ==
    /\ \/ Construct(<<"h", "/">>, <<"?", "t">>)
       \/ Construct(<<"h">>, None)
    /\ Untouched

Next ==
    \/ get(Users, Item42, None, None)
    \/ \E o \in Objs : post(Users, o)
    \/ put(Users, "o1", Item42)
    \/ delete(Users, Item42)
    \/ \E c \in DOMAIN calls : \E r \in Responses : Respond(c, r[1], r[2])
    \/ \E c \in DOMAIN calls : ReadBody(c)
    \/ \E c \in DOMAIN calls : TransportFail(c)

Spec == Init /\ [][Next]_vars

\* The URL specification: one call, its arguments and the client's
\* configuration drawn from sets of strings with slashes, question marks and
\* reserved characters in every position.
RawRoots == { <<"h">>, <<"h", "/">>, <<"h", "/", "/">>, <<"h", "?">> }
Tokens ==
    { None, << >>, <<"t">>, <<"?", "t">>, <<"t", "?">>, <<"?">>,
      <<"?", "t", "?", "t", "?">>, <<"?", "a", "b", "c", "1", "2", "3">> }
Resources == Strings({"/", "r", "?"}, MaxResLen)
ItemIds == { None, << >>, Item42, <<"4", "?">> }
FilterKeys == { None, << >>, <<"s", "t", "a", "t", "u", "s">>, <<"a", "?">> }
FilterValues == { None, << >>, <<"o", "p", "e", "n">>, <<"/", " ">> }

InitUrl ==
    /\ \E root \in RawRoots, token \in Tokens : Construct(root, token)
    /\ Untouched

NextUrl ==
    \/ /\ calls = << >>
       /\ \E resource \in Resources, item_id \in ItemIds :
             \E k \in FilterKeys, v \in FilterValues : get(resource, item_id, k, v)
    \/ /\ calls = << >>
       /\ \E resource \in Resources : post(resource, "o1")
    \/ /\ calls = << >>
       /\ \E resource \in Resources, item_id \in ItemIds : put(resource, "o1", item_id)
    \/ /\ calls = << >>
       /\ \E resource \in Resources, item_id \in ItemIds : delete(resource, item_id)

SpecUrl == InitUrl /\ [][NextUrl]_vars

\* ------------------------------------------------------- stating the claims

StartsWith(s, p) == Len(p) <= Len(s) /\ SubSeq(s, 1, Len(p)) = p
EndsWith(s, p) == Len(p) <= Len(s) /\ SubSeq(s, Len(s) - Len(p) + 1, Len(s)) = p

\* s without its leading and trailing ch: what lies between the first and the
\* last character of s that is not ch.
Core(s, ch) ==
    LET keep == { i \in 1..Len(s) : s[i] # ch }
    IN  IF keep = {} THEN << >>
        ELSE SubSeq(s, CHOOSE i \in keep : \A j \in keep : i <= j,
                       CHOOSE i \in keep : \A j \in keep : j <= i)

TokenEq == <<"t", "o", "k", "e", "n", "=">>

\* apiRoot "/" trimmed resource ["/" itemId] for the arguments of call c.
BasePath(c) ==
    LET b == API_ROOT \o <<"/">> \o Core(calls[c].resource, "/")
    IN  IF Truthy(calls[c].item_id) THEN b \o <<"/">> \o calls[c].item_id ELSE b

\* The URL of call c without the token parameter and the character joining it.
SansToken(c) ==
    IF Truthy(ACCESS_STRING)
    THEN SubSeq(calls[c].url, 1,
                Len(calls[c].url) - (1 + Len(TokenEq) + Len(Core(ACCESS_STRING, "?"))))
    ELSE calls[c].url

\* The character joining the token parameter to the rest of the URL of call c.
Joiner(c) == calls[c].url[Len(SansToken(c)) + 1]

\* Whether call c appended filter parameters.
Filtered(c) ==
    calls[c].op = "GET" /\ Truthy(calls[c].filter_key) /\ Truthy(calls[c].filter_value)

\* The URL the operation of call c builds when given another resource string.
UrlWith(c, resource) ==
    build_url(resource, calls[c].item_id,
              IF calls[c].op = "GET"
              THEN get_query_params(calls[c].filter_key, calls[c].filter_value)
              ELSE NoParams)

\* The requests issued by call c.
RequestsOf(c) == { r \in DOMAIN requests : requests[r].call = c }

\* C4: the URL every operation builds and requests starts with apiRoot (no
\* trailing slash), "/", the resource without its leading and trailing slashes
\* (inner slashes kept), then "/" itemId when an item identifier is given; the
\* same URL is built from the resource already trimmed.
C4_BasePath ==
    /\ ~EndsWith(API_ROOT, <<"/">>)
    /\ \A c \in DOMAIN calls :
          /\ StartsWith(calls[c].url, BasePath(c))
          /\ \A r \in RequestsOf(c) : requests[r].url = calls[c].url
          /\ calls[c].url = UrlWith(c, Core(calls[c].resource, "/"))

C4_Witness ==
    \E c \in DOMAIN calls :
       /\ calls[c].resource = <<"/", "r", "/">>
       /\ calls[c].item_id = Item42
       /\ StartsWith(calls[c].url, <<"h", "/", "r", "/", "4", "2">>)

\* C3 as stated: with a token configured the URL ends with token=<token>, joined
\* by "&" exactly when filter parameters were appended and by "?" otherwise.
C3_AsStated ==
    \A c \in DOMAIN calls :
       Truthy(ACCESS_STRING) =>
          /\ EndsWith(calls[c].url, TokenEq \o Core(ACCESS_STRING, "?"))
          /\ Joiner(c) = (IF Filtered(c) THEN "&" ELSE "?")

\* C3 amended: with a token configured the URL ends with token=<token>, joined
\* by "&" exactly when the URL built so far holds a "?" (filter parameters were
\* appended, or apiRoot, the trimmed resource or the item identifier holds one)
\* and by "?" otherwise; a token is never joined by "&" to a URL without "?".
C3_Separator ==
    \A c \in DOMAIN calls :
       Truthy(ACCESS_STRING) =>
          /\ EndsWith(calls[c].url, TokenEq \o Core(ACCESS_STRING, "?"))
          /\ Joiner(c) \in {"&", "?"}
          /\ Joiner(c) = "&" <=>
                \/ Filtered(c)
                \/ Contains(API_ROOT, "?")
                \/ Contains(Core(calls[c].resource, "/"), "?")
                \/ Truthy(calls[c].item_id) /\ Contains(calls[c].item_id, "?")
          /\ Joiner(c) = "&" => Contains(SansToken(c), "?")

C3_Witness ==
    \E c \in DOMAIN calls :
       /\ ACCESS_STRING = <<"?", "t">>
       /\ ~Filtered(c)
       /\ calls[c].resource = <<"r", "?", "r">>
       /\ EndsWith(calls[c].url, <<"r", "?", "r", "&">> \o TokenEq \o <<"t">>)

\* C7: the token value in the URL is the access token without its leading and
\* trailing "?" characters, inner ones kept: "?abc123" gives token=abc123.
C7_TokenStripped ==
    \A c \in DOMAIN calls :
       Truthy(ACCESS_STRING) =>
          /\ \E sep \in {"?", "&"} :
                EndsWith(calls[c].url, <<sep>> \o TokenEq \o Core(ACCESS_STRING, "?"))
          /\ ACCESS_STRING = <<"?", "a", "b", "c", "1", "2", "3">> =>
                EndsWith(calls[c].url, TokenEq \o <<"a", "b", "c", "1", "2", "3">>)
          /\ ACCESS_STRING = <<"?", "t", "?", "t", "?">> =>
                EndsWith(calls[c].url, TokenEq \o <<"t", "?", "t">>)

C7_Witness ==
    \E c \in DOMAIN calls :
       /\ ACCESS_STRING = <<"?", "a", "b", "c", "1", "2", "3">>
       /\ EndsWith(calls[c].url, <<"?">> \o TokenEq \o <<"a", "b", "c", "1", "2", "3">>)

\* C6: get appends exactly the URL-encoded pair key=value when both filterKey and
\* filterValue are given (status=open for "status", "open"), and no filter query
\* string when either is missing or empty, still issuing its request; post, put
\* and delete never append one.
C6_Filter ==
    \A c \in DOMAIN calls :
       /\ Filtered(c) =>
             SansToken(c) = BasePath(c) \o <<"?">> \o quote_plus(calls[c].filter_key)
                               \o <<"=">> \o quote_plus(calls[c].filter_value)
       /\ ( /\ calls[c].op = "GET"
            /\ calls[c].filter_key = <<"s", "t", "a", "t", "u", "s">>
            /\ calls[c].filter_value = <<"o", "p", "e", "n">> ) =>
             SansToken(c) = BasePath(c) \o <<"?", "s", "t", "a", "t", "u", "s", "=",
                                              "o", "p", "e", "n">>
       /\ ( /\ calls[c].op = "GET"
            /\ calls[c].filter_key = <<"a", "?">>
            /\ calls[c].filter_value = <<"/", " ">> ) =>
             SansToken(c) = BasePath(c) \o <<"?", "a", "%", "3", "F", "=",
                                              "%", "2", "F", "+">>
       /\ ~Filtered(c) => SansToken(c) = BasePath(c)
       /\ \E r \in RequestsOf(c) :
             requests[r].url = calls[c].url /\ requests[r].method = calls[c].op
       /\ calls[c].outcome = Pending

C6_Witness ==
    \E c \in DOMAIN calls :
       /\ calls[c].op = "GET"
       /\ calls[c].filter_key = <<"s", "t", "a", "t", "u", "s">>
       /\ calls[c].filter_value = << >>
       /\ ~Contains(calls[c].url, "=")
       /\ RequestsOf(c) # {}

\* Calls that have returned or raised, and those among them whose response body
\* was read to its end.
Done == { c \in DOMAIN calls : calls[c].pc = "done" }
Consumed == { c \in Done : calls[c].consumed }
Posts == { c \in DOMAIN calls : calls[c].op = "POST" }

\* C1 as stated: a call whose response was read returns the parsed body when the
\* status is 200 and raises the error carrying method, status and body text
\* otherwise: two outcomes, decided by the status alone.
C1_AsStated ==
    \A c \in Consumed :
       /\ calls[c].outcome.kind = "return" <=> calls[c].status = 200
       /\ calls[c].status # 200 =>
             calls[c].outcome = [kind |-> "ValueError", method |-> calls[c].op,
                                 status |-> calls[c].status, text |-> calls[c].text]

\* C1 amended: a call whose response was read returns the parsed body if and only
\* if the status is 200 and the body is valid JSON; on 200 with a body that is not
\* valid JSON it raises the JSON decoding failure; on every other status (201 and
\* 404 included) it raises the error carrying method, status and raw body text.
\* No call returns a value for a non-200 status, and a call whose transport
\* failed raises the transport failure.
C1_Outcomes ==
    /\ \A c \in Consumed :
          /\ calls[c].outcome.kind = "return" <=>
                (calls[c].status = 200 /\ IsJson(calls[c].text))
          /\ calls[c].outcome.kind = "return" =>
                calls[c].outcome.value = json_loads(calls[c].text)
          /\ (calls[c].status = 200 /\ ~IsJson(calls[c].text)) =>
                calls[c].outcome = [kind |-> "JSONDecodeError"]
          /\ calls[c].status # 200 =>
                calls[c].outcome = [kind |-> "ValueError", method |-> calls[c].op,
                                    status |-> calls[c].status, text |-> calls[c].text]
    /\ \A c \in Done \ Consumed : calls[c].outcome = TransportError
    /\ \A c \in DOMAIN calls :
          /\ calls[c].outcome.kind = "return" => c \in Consumed /\ calls[c].status = 200
          /\ c \notin Done => calls[c].outcome = Pending

C1_Witness ==
    \E c, d \in Consumed :
       /\ calls[c].op = "GET"
       /\ calls[c].outcome = [kind |-> "ValueError", method |-> "GET",
                              status |-> 404, text |-> PlainText]
       /\ calls[d].status = 201
       /\ calls[d].outcome.kind = "ValueError"

\* C2: once a call has returned or raised (on 200, on a non-200 status, on a body
\* that is not JSON, on a transport failure) its session is closed and its
\* response released; every call has a session of its own, used by its request
\* alone, so when all calls have finished no session is open.
C2_Released ==
    /\ \A c \in Done :
          /\ sessions[calls[c].session].closed
          /\ calls[c].res # "open"
    /\ Len(sessions) = Len(calls)
    /\ \A c \in DOMAIN calls :
          /\ calls[c].session \in DOMAIN sessions
          /\ sessions[calls[c].session].owner = c
          /\ \A r \in RequestsOf(c) : requests[r].session = calls[c].session
    /\ \A c, d \in DOMAIN calls : calls[c].session = calls[d].session => c = d
    /\ \A q, r \in DOMAIN requests :
          requests[q].session = requests[r].session => requests[q].call = requests[r].call
    /\ Done = DOMAIN calls => \A x \in DOMAIN sessions : sessions[x].closed

C2_Witness ==
    \E c, d \in Done :
       /\ calls[c].outcome = TransportError
       /\ calls[d].outcome = [kind |-> "JSONDecodeError"]
       /\ Done = DOMAIN calls
       /\ \A x \in DOMAIN sessions : sessions[x].closed

\* C9 as stated: each call issues exactly one request, with its verb, and has
\* returned or raised only after the response was received and its body consumed.
C9_AsStated ==
    \A c \in DOMAIN calls :
       /\ Cardinality(RequestsOf(c)) = 1
       /\ \A r \in RequestsOf(c) : requests[r].method = calls[c].op
       /\ c \in Done => calls[c].res # "none" /\ calls[c].consumed

\* C9 amended: each call issues exactly one request, with its verb, never a second
\* one (no retry after a non-200 status or a failure); it returns or raises only
\* after the response was received and its body consumed, or after the transport
\* failed, in which case it raises the transport failure.
C9_SingleRequest ==
    /\ Len(requests) = Len(calls)
    /\ \A c \in DOMAIN calls :
          /\ Cardinality(RequestsOf(c)) = 1
          /\ \A r \in RequestsOf(c) : requests[r].method = calls[c].op
          /\ c \in Done =>
                \/ calls[c].res # "none" /\ calls[c].consumed
                \/ calls[c].outcome = TransportError

C9_Witness ==
    \E c \in Consumed :
       /\ calls[c].op = "PUT"
       /\ calls[c].outcome.kind = "ValueError"
       /\ Cardinality(RequestsOf(c)) = 1

\* The step is the invocation of an operation: one call more.
Invoked == Len(calls') = Len(calls) + 1
NewCallOp == calls'[Len(calls')].op
NewCallData == calls'[Len(calls')].data
NewRequestBody == requests'[Len(requests')].body

\* Every id held by a dict of the caller or sent in a request body.
KnownIds ==
    { store[o]["id"] : o \in { x \in Objs : "id" \in DOMAIN store[x] } }
    \cup { requests[r].body["id"] :
              r \in { x \in DOMAIN requests : "id" \in DOMAIN requests[x].body } }

\* The body sent by post call c.
SentBody(c) == requests[CHOOSE r \in RequestsOf(c) : TRUE].body

\* A post of a dict with an id sends the dict as it is and generates nothing; a
\* post of a dict without one sends the dict plus an id no dict or request held.
PostSendsId ==
    (Invoked /\ NewCallOp = "POST") =>
        LET d == store[NewCallData]
            body == NewRequestBody
        IN  IF "id" \in DOMAIN d
            THEN body = d /\ nextUuid' = nextUuid /\ store' = store
            ELSE /\ DOMAIN body = DOMAIN d \cup {"id"}
                 /\ \A k \in DOMAIN d : body[k] = d[k]
                 /\ body["id"] \notin KnownIds

\* C5: post always sends a body with an id field: dataObj plus a fresh id, every
\* other field unchanged, when dataObj has none; dataObj unchanged, and no id
\* generated, when it has one; the ids generated for two separate id-less dicts
\* differ.
C5_PostId ==
    /\ [](\A c \in Posts : RequestsOf(c) # {} /\ "id" \in DOMAIN SentBody(c))
    /\ [](\A c, d \in Posts :
            ( /\ calls[c].data # calls[d].data
              /\ "id" \notin DOMAIN Store0[calls[c].data]
              /\ "id" \notin DOMAIN Store0[calls[d].data] ) =>
                SentBody(c)["id"] # SentBody(d)["id"])
    /\ [](\A c \in Posts :
            "id" \in DOMAIN Store0[calls[c].data] =>
                SentBody(c) = Store0[calls[c].data])
    /\ [][PostSendsId]_vars

C5_Witness ==
    \E c, d \in Posts :
       /\ calls[c].data = "o1"
       /\ calls[d].data = "o2"
       /\ SentBody(c) = [id |-> "uuid-1", name |-> "x"]
       /\ SentBody(d) = [id |-> "uuid-2", name |-> "y"]

\* The same operation with the same arguments.
SameArguments(c, d) ==
    /\ calls[c].op = calls[d].op
    /\ calls[c].resource = calls[d].resource
    /\ calls[c].item_id = calls[d].item_id
    /\ calls[c].filter_key = calls[d].filter_key
    /\ calls[c].filter_value = calls[d].filter_value

\* The same answer of the backend, read to the same point.
SameResponse(c, d) ==
    /\ calls[c].op = calls[d].op
    /\ calls[c].status = calls[d].status
    /\ calls[c].text = calls[d].text
    /\ calls[c].consumed = calls[d].consumed

\* C8: no step changes apiRoot or accessToken; two calls of the same operation
\* with the same arguments build the same URL and, given the same response, end
\* with the same outcome, whatever other calls came before or run beside them.
C8_Stateless ==
    /\ [][API_ROOT' = API_ROOT /\ ACCESS_STRING' = ACCESS_STRING]_vars
    /\ [](\A c, d \in DOMAIN calls :
            /\ SameArguments(c, d) => calls[c].url = calls[d].url
            /\ (c \in Done /\ d \in Done /\ SameResponse(c, d)) =>
                  calls[c].outcome = calls[d].outcome)
    /\ [](\A c \in DOMAIN calls : calls[c].url = UrlWith(c, calls[c].resource))

C8_Witness ==
    \E c, d \in Done :
       /\ c < d
       /\ SameArguments(c, d)
       /\ calls[c].outcome.kind = "ValueError"
       /\ calls[d].outcome.kind = "return"
       /\ calls[c].url = calls[d].url
       /\ ACCESS_STRING = <<"?", "t">>

\* Only the invocation of post changes a dict of the caller, and only by adding
\* an id to the dict it was given.
OnlyPostWrites ==
    store' # store =>
        /\ Invoked
        /\ NewCallOp = "POST"
        /\ "id" \notin DOMAIN store[NewCallData]
        /\ \A o \in Objs \ {NewCallData} : store'[o] = store[o]
        /\ \A k \in DOMAIN store[NewCallData] :
              store'[NewCallData][k] = store[NewCallData][k]

\* C10: post writes the generated id into the caller's dict before the request is
\* sent, so the dict holds the id sent whatever the outcome of the call, and a
\* later post of the same dict sends the same id again; put, get and delete
\* never change the caller's arguments.
C10_IdStays ==
    /\ [](\A c \in Posts :
            /\ "id" \in DOMAIN store[calls[c].data]
            /\ RequestsOf(c) # {}
            /\ SentBody(c) = store[calls[c].data])
    /\ [](\A c, d \in Posts :
            calls[c].data = calls[d].data => SentBody(c)["id"] = SentBody(d)["id"])
    /\ [][OnlyPostWrites]_vars

C10_Witness ==
    \E c, d \in Posts :
       /\ c < d
       /\ calls[c].data = "o1"
       /\ calls[d].data = "o1"
       /\ c \in Done
       /\ calls[c].outcome.kind \in {"ValueError", "ClientError"}
       /\ store["o1"] = [id |-> "uuid-1", name |-> "x"]
       /\ SentBody(d) = store["o1"]

====
